---- MODULE Spec2Model ----
(***************************************************************************)
(* A model of the cyclone particle / rigid-body physics core:              *)
(*   src/src/particle.ts      Particle                                     *)
(*   src/unnamed/part_001     particle force generators and their registry *)
(*   src/unnamed/part_000     RigidBody                                    *)
(*                                                                         *)
(* Numbers.  A JavaScript number is modelled by an exact rational <<n, d>> *)
(* in lowest terms with d > 0, extended by <<1, 0>> (+Infinity),           *)
(* <<-1, 0>> (-Infinity) and <<0, 0>> (NaN).  Rounding is not modelled:    *)
(* the inputs are small rationals, and the properties are read "within     *)
(* floating tolerance" as the specification does.                          *)
(***************************************************************************)
EXTENDS Integers, Sequences, FiniteSets, TLC

VARIABLES
    particles,      \* [1..NumParticles -> Particle]: the Particle objects
    gens,           \* [GenIds -> force generator object]
    registrations,  \* ParticleForceRegistry.registrations
    body,           \* the RigidBody object
    op,             \* the operation performed last: [name, i, arg]
    before,         \* the program state the last operation started from
    accSet,         \* per particle, the value last given to setAcceleration
    added,          \* the pairs added to the registry and not since removed
    invoked,        \* the updateForce calls made by the last updateForces
    run,            \* per particle, the current run of integrate calls
    ncalls,         \* number of operations performed so far
    contacts,       \* the ParticleContact objects, a sequence
    raised,         \* the operation performed last ended by throwing
    resolver,       \* the ParticleContactResolver object
    iterlog         \* the iterations of the last resolveContacts call

vars == <<particles, gens, registrations, body, op, before, accSet, added,
          invoked, run, ncalls, contacts, raised, resolver, iterlog>>

----------------------------------------------------------------------------
(* Bounds of the model *)

\* operations performed in one behaviour
MaxCalls == 3

\* largest step duration, in whole seconds
MaxDuration == 2

\* direct updateForce calls made in one behaviour
MaxForceCalls == 2

\* operations performed on the rigid body in one behaviour
MaxBodyCalls == 2

\* operations performed on a contact in one behaviour
MaxContactCalls == 1

MaxSpinCalls == 3

\* operations performed on the contact resolver in one behaviour
MaxResolverCalls == 2

\* largest value given to ParticleContactResolver.iterations
MaxIterations == 2

\* largest denominator a body's position and velocity may reach: the default
\* damping of 0.1 divides the velocity by a power of ten at every step
MaxDenominator == 10000

----------------------------------------------------------------------------
(* JavaScript numbers *)

Abs(x) == IF x < 0 THEN -x ELSE x

Sign(x) == IF x < 0 THEN -1 ELSE IF x > 0 THEN 1 ELSE 0

RECURSIVE GCD(_, _)
GCD(a, b) == IF b = 0 THEN a ELSE GCD(b, a % b)

\* the number n / d
Rat(n, d) ==
    IF d = 0 THEN <<Sign(n), 0>>
    ELSE LET g == GCD(Abs(n), Abs(d))
             s == Sign(d)
         IN  <<(s * n) \div g, (s * d) \div g>>

Num(k) == <<k, 1>>

NaN == <<0, 0>>

Infinity == <<1, 0>>

IsNaN(a) == a = NaN

IsFinite(a) == a[2] # 0

RAdd(a, b) ==
    IF a[2] = 0 /\ b[2] = 0
    THEN (IF a = b THEN a ELSE NaN)
    ELSE IF a[2] = 0 \/ b[2] = 0
    THEN Rat(a[1] * b[2] + b[1] * a[2], 0)
    ELSE LET g == GCD(a[2], b[2])
         IN  Rat(a[1] * (b[2] \div g) + b[1] * (a[2] \div g), (a[2] \div g) * b[2])

RNeg(a) == <<-a[1], a[2]>>

RSub(a, b) == RAdd(a, RNeg(b))

RMul(a, b) == Rat(a[1] * b[1], a[2] * b[2])

RDiv(a, b) ==
    IF b[2] = 0
    THEN (IF a[2] = 0 \/ b = NaN THEN NaN ELSE Num(0))
    ELSE IF b[1] < 0
         THEN Rat(-(a[1] * b[2]), a[2] * (-b[1]))
         ELSE Rat(a[1] * b[2], a[2] * b[1])

\* a < b, a <= b, a == b as JavaScript evaluates them: false when either is NaN
RLt(a, b) ==
    /\ ~IsNaN(a)
    /\ ~IsNaN(b)
    /\ IF a[2] = 0 \/ b[2] = 0
       THEN a # b /\ (a = RNeg(Infinity) \/ b = Infinity)
       ELSE a[1] * b[2] < b[1] * a[2]

REq(a, b) == ~IsNaN(a) /\ ~IsNaN(b) /\ a = b

RLe(a, b) == RLt(a, b) \/ REq(a, b)

RGt(a, b) == RLt(b, a)

RGe(a, b) == RLe(b, a)

\* Math.pow(b, e) for a whole exponent e (Math.pow(x, 0) is 1 for every x)
RECURSIVE PowNat(_, _)
PowNat(b, k) == IF k = 0 THEN Num(1) ELSE RMul(b, PowNat(b, k - 1))

Pow(b, e) ==
    IF e[1] < 0 THEN RDiv(Num(1), PowNat(b, -e[1])) ELSE PowNat(b, e[1])

----------------------------------------------------------------------------
(* vec3 *)

Zero3 == <<Num(0), Num(0), Num(0)>>

Vec(x, y, z) == <<Num(x), Num(y), Num(z)>>

V3Add(a, b) == <<RAdd(a[1], b[1]), RAdd(a[2], b[2]), RAdd(a[3], b[3])>>

V3Sub(a, b) == <<RSub(a[1], b[1]), RSub(a[2], b[2]), RSub(a[3], b[3])>>

V3Scale(a, s) == <<RMul(a[1], s), RMul(a[2], s), RMul(a[3], s)>>

\* vec3.scaleAndAdd(out, a, b, s): out = a + b * s
V3ScaleAndAdd(a, b, s) ==
    <<RAdd(a[1], RMul(b[1], s)), RAdd(a[2], RMul(b[2], s)),
      RAdd(a[3], RMul(b[3], s))>>

V3Dot(a, b) == RAdd(RAdd(RMul(a[1], b[1]), RMul(a[2], b[2])), RMul(a[3], b[3]))

----------------------------------------------------------------------------
(* Particle, src/src/particle.ts *)

ParticleIds == 1..2

\* a Particle as its constructor leaves it
NewParticle ==
    [inverseMass |-> Num(0), damping |-> Num(0), position |-> Zero3,
     velocity |-> Zero3, forceAccum |-> Zero3, acceleration |-> Zero3]

clearAccumulator(p) == [p EXCEPT !.forceAccum = Zero3]

\* integrate without the closing clearAccumulator()
Particle_integrate_keepsForce(p, duration) ==
    LET resultingAcc == V3ScaleAndAdd(p.acceleration, p.forceAccum, p.inverseMass)
    IN  [p EXCEPT !.position = V3ScaleAndAdd(p.position, p.velocity, duration),
                  !.acceleration = resultingAcc,
                  !.velocity = V3Scale(V3ScaleAndAdd(p.velocity, resultingAcc, duration),
                                       Pow(p.damping, duration))]

\* integrate that moves the particle with the velocity it has just computed
Particle_integrate_postVelocity(p, duration) ==
    LET resultingAcc == V3ScaleAndAdd(p.acceleration, p.forceAccum, p.inverseMass)
        velocity == V3Scale(V3ScaleAndAdd(p.velocity, resultingAcc, duration),
                            Pow(p.damping, duration))
    IN  clearAccumulator(
            [p EXCEPT !.position = V3ScaleAndAdd(p.position, velocity, duration),
                      !.acceleration = resultingAcc,
                      !.velocity = velocity])

\* Particle.integrate(duration).  console.assert only logs a failed assertion,
\* so the body runs whatever duration is.  resultingAcc is this.acceleration
\* itself (no copy is taken), so the scaleAndAdd into it writes the field.
Particle_integrate(p, duration) ==
    LET position == V3ScaleAndAdd(p.position, p.velocity, duration)
        resultingAcc == V3ScaleAndAdd(p.acceleration, p.forceAccum, p.inverseMass)
        velocity == V3ScaleAndAdd(p.velocity, resultingAcc, duration)
        damped == V3Scale(velocity, Pow(p.damping, duration))
    IN  clearAccumulator(
            [p EXCEPT !.position = position,
                      !.acceleration = resultingAcc,
                      !.velocity = damped])

\* Particle.setMass(mass); the assert logs and the division is made anyway
Particle_setMass(p, mass) == [p EXCEPT !.inverseMass = RDiv(Num(1), mass)]

Particle_getMass(p) ==
    IF REq(p.inverseMass, Num(0)) THEN Infinity ELSE RDiv(Num(1), p.inverseMass)

Particle_setInverseMass(p, inverseMass) == [p EXCEPT !.inverseMass = inverseMass]

Particle_hasFiniteMass(p) == RGe(p.inverseMass, Num(0))

Particle_setDamping(p, damping) == [p EXCEPT !.damping = damping]

Particle_setPosition(p, position) == [p EXCEPT !.position = position]

Particle_setVelocity(p, velocity) == [p EXCEPT !.velocity = velocity]

Particle_setAcceleration(p, acceleration) == [p EXCEPT !.acceleration = acceleration]

Particle_addForce(p, force) == [p EXCEPT !.forceAccum = V3Add(p.forceAccum, force)]

----------------------------------------------------------------------------
(* vec3.len and vec3.normalize.  A square root is taken exactly; the      *)
(* actions that need one are enabled where the root is rational.           *)

\* the largest r in lo..hi with r * r <= n, by bisection
RECURSIVE RootBetween(_, _, _)
RootBetween(n, lo, hi) ==
    IF lo >= hi THEN lo
    ELSE LET mid == (lo + hi + 1) \div 2
         IN  IF mid * mid <= n THEN RootBetween(n, mid, hi)
                               ELSE RootBetween(n, lo, mid - 1)

\* the whole part of the square root of n >= 0
ISqrt(n) == RootBetween(n, 0, IF n < 46340 THEN n ELSE 46340)

IsSquare(n) == ISqrt(n) * ISqrt(n) = n

HasSqrt(a) == IsFinite(a) => (a[1] >= 0 => IsSquare(a[1]) /\ IsSquare(a[2]))

\* Math.sqrt
RSqrt(a) ==
    IF a[2] = 0 THEN (IF a = Infinity THEN Infinity ELSE NaN)
    ELSE IF a[1] < 0 THEN NaN
    ELSE Rat(ISqrt(a[1]), ISqrt(a[2]))

V3Len(a) == RSqrt(V3Dot(a, a))

\* vec3.normalize: a zero vector stays zero
V3Normalize(a) ==
    LET len == V3Dot(a, a)
    IN  V3Scale(a, IF RGt(len, Num(0)) THEN RDiv(Num(1), RSqrt(len)) ELSE len)

HasLen(a) == HasSqrt(V3Dot(a, a))

----------------------------------------------------------------------------
(* Force generators, src/unnamed/part_001.  updateForce(fg, ps, i, duration) *)
(* is fg.updateForce(ps[i], duration); it yields the generator and the      *)
(* particle as the call leaves them.                                        *)

Applied(fg, p) == [fg |-> fg, particle |-> p]

\* vec3.scale(this.gravity, this.gravity, duration) writes the generator's own
\* vector and hands the same vector to addForce
ParticleGravity_updateForce(fg, ps, i, duration) ==
    IF ~Particle_hasFiniteMass(ps[i])
    THEN Applied(fg, ps[i])
    ELSE LET scaled == V3Scale(fg.gravity, duration)
         IN  Applied([fg EXCEPT !.gravity = scaled], Particle_addForce(ps[i], scaled))

ParticleDrag_updateForce(fg, ps, i, duration) ==
    LET force == ps[i].velocity
        len == V3Len(force)
        dragCoeff == RAdd(RMul(fg.k1, len), RMul(RMul(fg.k2, len), len))
    IN  Applied(fg, Particle_addForce(ps[i],
                        V3Scale(V3Normalize(force), RNeg(dragCoeff))))

RAbs(a) == <<Abs(a[1]), a[2]>>

ParticleSpring_updateForce(fg, ps, i, duration) ==
    LET force == V3Sub(ps[i].position, ps[fg.other].position)
        magnitude == RMul(RAbs(RSub(V3Len(force), fg.restLength)), fg.springConstant)
    IN  Applied(fg, Particle_addForce(ps[i],
                        V3Scale(V3Normalize(force), RNeg(magnitude))))

ParticleAnchoredSpring_updateForce(fg, ps, i, duration) ==
    LET force == V3Sub(ps[i].position, fg.anchor)
        magnitude == RMul(RSub(fg.restLength, V3Len(force)), fg.springConstant)
    IN  Applied(fg, Particle_addForce(ps[i], V3Scale(V3Normalize(force), magnitude)))

ParticleBuoyancy_updateForce(fg, ps, i, duration) ==
    LET depth == ps[i].position[2]
    IN  IF RGe(depth, RAdd(fg.waterHeight, fg.maxDepth))
        THEN Applied(fg, ps[i])
        ELSE IF RLe(depth, RSub(fg.waterHeight, fg.maxDepth))
        THEN Applied(fg, Particle_addForce(ps[i],
                 <<Num(0), RMul(fg.liquidDensity, fg.volume), Num(0)>>))
        ELSE Applied(fg, Particle_addForce(ps[i],
                 <<Num(0),
                   RDiv(RMul(RMul(fg.liquidDensity, fg.volume),
                             RSub(RSub(depth, fg.maxDepth), fg.waterHeight)),
                        RMul(Num(2), fg.maxDepth)),
                   Num(0)>>))

ParticleBungee_updateForce(fg, ps, i, duration) ==
    LET force == V3Sub(ps[i].position, ps[fg.other].position)
        len == V3Len(force)
        magnitude == RMul(fg.springConstant, RSub(fg.restLength, len))
    IN  IF RLe(len, fg.restLength)
        THEN Applied(fg, ps[i])
        ELSE Applied(fg, Particle_addForce(ps[i],
                            V3Scale(V3Normalize(force), RNeg(magnitude))))

ParticleAnchoredBungee_updateForce(fg, ps, i, duration) ==
    LET force == V3Sub(ps[i].position, fg.anchor)
        len == V3Len(force)
        magnitude == RMul(RSub(len, fg.restLength), fg.springConstant)
    IN  IF RLt(len, fg.restLength)
        THEN Applied(fg, ps[i])
        ELSE Applied(fg, Particle_addForce(ps[i],
                            V3Scale(V3Normalize(force), RNeg(magnitude))))

\* Math.cos and Math.exp where their value is exact: at 0 and at the
\* arguments that are not finite numbers
Cos(x) ==
    CASE x = Num(0) -> Num(1)
      [] ~IsFinite(x) -> NaN

Exp(x) ==
    CASE x = Num(0) -> Num(1)
      [] x = Infinity -> Infinity
      [] x = RNeg(Infinity) -> Num(0)
      [] IsNaN(x) -> NaN

\* 4 * springConstant - damping * damping
Discriminant(fg) ==
    RSub(RMul(Num(4), fg.springConstant), RMul(fg.damping, fg.damping))

\* gamma of ParticleFakeSpring.updateForce
Gamma(fg) == RMul(Rat(1, 2), RSqrt(Discriminant(fg)))

\* the square root, cosine and exponential of the call are exact
FakeSpringComputable(fg, duration) ==
    fg.kind = "fakeSpring" =>
        /\ HasSqrt(Discriminant(fg))
        /\ REq(Gamma(fg), Num(0))
              \/ /\ RMul(Gamma(fg), duration) = Num(0)
                       \/ ~IsFinite(RMul(Gamma(fg), duration))
                 /\ RMul(RMul(Rat(-1, 2), duration), fg.damping) = Num(0)
                       \/ ~IsFinite(RMul(RMul(Rat(-1, 2), duration), fg.damping))

\* the vector c and the sine of the source are computed into tempVec3 and
\* never added to the target; they leave no trace in the result
ParticleFakeSpring_updateForce(fg, ps, i, duration) ==
    IF ~Particle_hasFiniteMass(ps[i]) THEN Applied(fg, ps[i])
    ELSE LET position == V3Sub(ps[i].position, fg.anchor)
             gamma == Gamma(fg)
         IN  IF REq(gamma, Num(0)) THEN Applied(fg, ps[i])
             ELSE LET target == V3Scale(V3Scale(position, Cos(RMul(gamma, duration))),
                                        Exp(RMul(RMul(Rat(-1, 2), duration), fg.damping)))
                      accel == V3Sub(V3Scale(V3Sub(target, position),
                                             RDiv(Num(1), RMul(duration, duration))),
                                     V3Scale(ps[i].velocity, RDiv(Num(1), duration)))
                  IN  Applied(fg, Particle_addForce(ps[i],
                                      V3Scale(accel, Particle_getMass(ps[i]))))

\* the vector whose length fg.updateForce(ps[i], ...) takes, if it takes one
LengthTaken(fg, ps, i) ==
    CASE fg.kind = "drag" -> ps[i].velocity
      [] fg.kind \in {"spring", "bungee"} -> V3Sub(ps[i].position, ps[fg.other].position)
      [] fg.kind \in {"anchoredSpring", "anchoredBungee"} -> V3Sub(ps[i].position, fg.anchor)
      [] OTHER -> Zero3

\* ParticleForceGenerator.updateForce, dispatched on the generator's class
updateForce(fg, ps, i, duration) ==
    CASE fg.kind = "gravity" -> ParticleGravity_updateForce(fg, ps, i, duration)
      [] fg.kind = "drag" -> ParticleDrag_updateForce(fg, ps, i, duration)
      [] fg.kind = "spring" -> ParticleSpring_updateForce(fg, ps, i, duration)
      [] fg.kind = "anchoredSpring" -> ParticleAnchoredSpring_updateForce(fg, ps, i, duration)
      [] fg.kind = "buoyancy" -> ParticleBuoyancy_updateForce(fg, ps, i, duration)
      [] fg.kind = "bungee" -> ParticleBungee_updateForce(fg, ps, i, duration)
      [] fg.kind = "anchoredBungee" -> ParticleAnchoredBungee_updateForce(fg, ps, i, duration)
      [] fg.kind = "fakeSpring" -> ParticleFakeSpring_updateForce(fg, ps, i, duration)

----------------------------------------------------------------------------
(* ParticleForceRegistry, src/unnamed/part_001 *)

Registration(i, g) == [particle |-> i, fg |-> g]

ParticleForceRegistry_add(regs, i, g) == Append(regs, Registration(i, g))

\* the body of remove is empty
ParticleForceRegistry_remove(regs, i, g) == regs

\* the body of clear is empty
ParticleForceRegistry_clear(regs) == regs

\* the loop of updateForces from registration k on; w holds the particles,
\* the generators and the calls made so far
RECURSIVE UpdateForcesFrom(_, _, _, _)
UpdateForcesFrom(k, regs, w, duration) ==
    IF k > Len(regs) THEN w
    ELSE LET r == regs[k]
             a == updateForce(w.gens[r.fg], w.particles, r.particle, duration)
         IN  UpdateForcesFrom(k + 1, regs,
                 [particles |-> [w.particles EXCEPT ![r.particle] = a.particle],
                  gens |-> [w.gens EXCEPT ![r.fg] = a.fg],
                  invoked |-> Append(w.invoked, r)],
                 duration)

ParticleForceRegistry_updateForces(regs, ps, gs, duration) ==
    UpdateForcesFrom(1, regs, [particles |-> ps, gens |-> gs, invoked |-> <<>>],
                     duration)

----------------------------------------------------------------------------
(* gl-matrix quat, mat3 and mat4; At(m, k) is the JavaScript m[k] *)

At(m, k) == IF k + 1 \in DOMAIN m THEN m[k + 1] ELSE NaN

\* quat.create()
QuatIdentity == <<Num(0), Num(0), Num(0), Num(1)>>

\* mat3.create()
Mat3Identity ==
    <<Num(1), Num(0), Num(0), Num(0), Num(1), Num(0), Num(0), Num(0), Num(1)>>

\* mat4.create()
Mat4Identity ==
    <<Num(1), Num(0), Num(0), Num(0), Num(0), Num(1), Num(0), Num(0),
      Num(0), Num(0), Num(1), Num(0), Num(0), Num(0), Num(0), Num(1)>>

\* the determinant mat3.invert computes, with its first-column cofactors
Mat3Det(a) ==
    LET b01 == RSub(RMul(a[9], a[5]), RMul(a[6], a[8]))
        b11 == RAdd(RMul(RNeg(a[9]), a[4]), RMul(a[6], a[7]))
        b21 == RSub(RMul(a[8], a[4]), RMul(a[5], a[7]))
    IN  RAdd(RAdd(RMul(a[1], b01), RMul(a[2], b11)), RMul(a[3], b21))

\* !det of mat3.invert: the determinant is 0 or NaN
Mat3Singular(a) == Mat3Det(a) = Num(0) \/ IsNaN(Mat3Det(a))

\* mat3.invert(out, a): out is left as it was (and null returned) when the
\* determinant is 0, and is the inverse of a otherwise
Mat3Invert(out, a) ==
    IF Mat3Singular(a) THEN out
    ELSE LET det == RDiv(Num(1), Mat3Det(a))
             b01 == RSub(RMul(a[9], a[5]), RMul(a[6], a[8]))
             b11 == RAdd(RMul(RNeg(a[9]), a[4]), RMul(a[6], a[7]))
             b21 == RSub(RMul(a[8], a[4]), RMul(a[5], a[7]))
         IN  <<RMul(b01, det),
               RMul(RAdd(RMul(RNeg(a[9]), a[2]), RMul(a[3], a[8])), det),
               RMul(RSub(RMul(a[6], a[2]), RMul(a[3], a[5])), det),
               RMul(b11, det),
               RMul(RSub(RMul(a[9], a[1]), RMul(a[3], a[7])), det),
               RMul(RAdd(RMul(RNeg(a[6]), a[1]), RMul(a[3], a[4])), det),
               RMul(b21, det),
               RMul(RAdd(RMul(RNeg(a[8]), a[1]), RMul(a[2], a[7])), det),
               RMul(RSub(RMul(a[5], a[1]), RMul(a[2], a[4])), det)>>

QuatDot(a, b) == RAdd(V3Dot(a, b), RMul(a[4], b[4]))

QuatHasLen(q) == HasSqrt(QuatDot(q, q))

\* quat.normalize
QuatNormalize(a) ==
    LET len == QuatDot(a, a)
        f == IF RGt(len, Num(0)) THEN RDiv(Num(1), RSqrt(len)) ELSE len
    IN  <<RMul(a[1], f), RMul(a[2], f), RMul(a[3], f), RMul(a[4], f)>>

\* quat.multiply
QuatMul(a, b) ==
    <<RSub(RAdd(RAdd(RMul(a[1], b[4]), RMul(a[4], b[1])), RMul(a[2], b[3])), RMul(a[3], b[2])),
      RSub(RAdd(RAdd(RMul(a[2], b[4]), RMul(a[4], b[2])), RMul(a[3], b[1])), RMul(a[1], b[3])),
      RSub(RAdd(RAdd(RMul(a[3], b[4]), RMul(a[4], b[3])), RMul(a[1], b[2])), RMul(a[2], b[1])),
      RSub(RSub(RSub(RMul(a[4], b[4]), RMul(a[1], b[1])), RMul(a[2], b[2])), RMul(a[3], b[3]))>>

\* QuatUtils.addScaledVector, src/src/math_utils.ts
addScaledVector(inQuat, vector, scale) ==
    LET q == QuatMul(<<RMul(vector[1], scale), RMul(vector[2], scale),
                       RMul(vector[3], scale), Num(0)>>, inQuat)
        half == Rat(1, 2)
    IN  <<RAdd(inQuat[1], RMul(q[1], half)), RAdd(inQuat[2], RMul(q[2], half)),
          RAdd(inQuat[3], RMul(q[3], half)), RAdd(inQuat[4], RMul(q[4], half))>>

\* vec3.transformMat3
V3TransformMat3(a, m) ==
    <<RAdd(RAdd(RMul(a[1], At(m, 0)), RMul(a[2], At(m, 3))), RMul(a[3], At(m, 6))),
      RAdd(RAdd(RMul(a[1], At(m, 1)), RMul(a[2], At(m, 4))), RMul(a[3], At(m, 7))),
      RAdd(RAdd(RMul(a[1], At(m, 2)), RMul(a[2], At(m, 5))), RMul(a[3], At(m, 8)))>>

\* mat4.fromRotationTranslation
_calculateTransformMatrix(position, orientation) ==
    LET x == orientation[1]
        y == orientation[2]
        z == orientation[3]
        w == orientation[4]
        x2 == RAdd(x, x)
        y2 == RAdd(y, y)
        z2 == RAdd(z, z)
        xx == RMul(x, x2)
        xy == RMul(x, y2)
        xz == RMul(x, z2)
        yy == RMul(y, y2)
        yz == RMul(y, z2)
        zz == RMul(z, z2)
        wx == RMul(w, x2)
        wy == RMul(w, y2)
        wz == RMul(w, z2)
    IN  <<RSub(Num(1), RAdd(yy, zz)), RAdd(xy, wz), RSub(xz, wy), Num(0),
          RSub(xy, wz), RSub(Num(1), RAdd(xx, zz)), RAdd(yz, wx), Num(0),
          RAdd(xz, wy), RSub(yz, wx), RSub(Num(1), RAdd(xx, yy)), Num(0),
          position[1], position[2], position[3], Num(1)>>

\* a * b + c * d + e * f
Sum3(a, b, c, d, e, f) == RAdd(RAdd(RMul(a, b), RMul(c, d)), RMul(e, f))

\* _transformInertiaTensor; t52 reads iitBody[9], past the end of the 3x3
\* matrix, which is undefined and makes the product NaN
_transformInertiaTensor(iitBody, rotmat) ==
    LET t4 == Sum3(At(rotmat, 0), At(iitBody, 0), At(rotmat, 1), At(iitBody, 3), At(rotmat, 2), At(iitBody, 6))
        t9 == Sum3(At(rotmat, 0), At(iitBody, 1), At(rotmat, 1), At(iitBody, 4), At(rotmat, 2), At(iitBody, 7))
        t14 == Sum3(At(rotmat, 0), At(iitBody, 2), At(rotmat, 1), At(iitBody, 5), At(rotmat, 2), At(iitBody, 8))
        t28 == Sum3(At(rotmat, 4), At(iitBody, 0), At(rotmat, 5), At(iitBody, 3), At(rotmat, 6), At(iitBody, 6))
        t33 == Sum3(At(rotmat, 4), At(iitBody, 1), At(rotmat, 5), At(iitBody, 4), At(rotmat, 6), At(iitBody, 7))
        t38 == Sum3(At(rotmat, 4), At(iitBody, 2), At(rotmat, 5), At(iitBody, 5), At(rotmat, 6), At(iitBody, 8))
        t52 == Sum3(At(rotmat, 8), At(iitBody, 0), At(rotmat, 9), At(iitBody, 9), At(rotmat, 10), At(iitBody, 6))
        t57 == Sum3(At(rotmat, 8), At(iitBody, 1), At(rotmat, 9), At(iitBody, 4), At(rotmat, 10), At(iitBody, 7))
        t62 == Sum3(At(rotmat, 8), At(iitBody, 2), At(rotmat, 9), At(iitBody, 5), At(rotmat, 10), At(iitBody, 8))
    IN  <<Sum3(t4, At(rotmat, 0), t9, At(rotmat, 1), t14, At(rotmat, 2)),
          Sum3(t4, At(rotmat, 4), t9, At(rotmat, 5), t14, At(rotmat, 6)),
          Sum3(t4, At(rotmat, 8), t9, At(rotmat, 9), t14, At(rotmat, 10)),
          Sum3(t28, At(rotmat, 0), t33, At(rotmat, 1), t38, At(rotmat, 2)),
          Sum3(t28, At(rotmat, 4), t33, At(rotmat, 5), t38, At(rotmat, 6)),
          Sum3(t28, At(rotmat, 8), t33, At(rotmat, 9), t38, At(rotmat, 10)),
          Sum3(t52, At(rotmat, 0), t57, At(rotmat, 1), t62, At(rotmat, 2)),
          Sum3(t52, At(rotmat, 4), t57, At(rotmat, 5), t62, At(rotmat, 6)),
          Sum3(t52, At(rotmat, 8), t57, At(rotmat, 9), t62, At(rotmat, 10))>>

----------------------------------------------------------------------------
(* RigidBody, src/unnamed/part_000 *)

sleepEpsilon == Rat(3, 10)

\* a RigidBody as its field initialisers leave it
NewBody ==
    [inverseMass |-> Num(0),
     inverseInertiaTensor |-> Mat3Identity,
     linearDamping |-> Rat(1, 10),
     angularDamping |-> Rat(1, 10),
     position |-> Zero3,
     orientation |-> QuatIdentity,
     velocity |-> Zero3,
     rotation |-> Zero3,
     inverseInertiaTensorWorld |-> Mat3Identity,
     motion |-> Num(0),
     isAwake |-> FALSE,
     canSleep |-> FALSE,
     transformMatrix |-> Mat4Identity,
     forceAccum |-> Zero3,
     torqueAccum |-> Zero3,
     acceleration |-> Zero3,
     lastFrameAcceleration |-> Zero3]

calculateDerivedData(b) ==
    LET orientation == QuatNormalize(b.orientation)
        transformMatrix == _calculateTransformMatrix(b.position, orientation)
    IN  [b EXCEPT !.orientation = orientation,
                  !.transformMatrix = transformMatrix,
                  !.inverseInertiaTensorWorld =
                      _transformInertiaTensor(b.inverseInertiaTensor, transformMatrix)]

clearAccumulators(b) == [b EXCEPT !.forceAccum = Zero3, !.torqueAccum = Zero3]

\* setAwake: `this.motion` is an expression statement and the else branch is
\* empty, so the call only ever sets isAwake to true
setAwake(b, awake) == IF awake THEN [b EXCEPT !.isAwake = TRUE] ELSE b

\* the body of integrate up to the calculateDerivedData() call
Moved(b, duration) ==
    LET lastFrameAcceleration == V3ScaleAndAdd(b.acceleration, b.forceAccum, b.inverseMass)
        angularAcceleration == V3TransformMat3(b.torqueAccum, b.inverseInertiaTensorWorld)
        velocity == V3Scale(V3ScaleAndAdd(b.velocity, lastFrameAcceleration, duration),
                            Pow(b.linearDamping, duration))
        rotation == V3Scale(V3ScaleAndAdd(b.rotation, angularAcceleration, duration),
                            Pow(b.angularDamping, duration))
    IN  [b EXCEPT !.lastFrameAcceleration = lastFrameAcceleration,
                  !.velocity = velocity,
                  !.rotation = rotation,
                  !.position = V3ScaleAndAdd(b.position, velocity, duration),
                  !.orientation = addScaledVector(b.orientation, rotation, duration)]

\* the body of integrate past the isAwake test.  currentMotion and bias are
\* computed and never used: motion is compared as it stands.
IntegrateAwake(b, duration) ==
    LET cleared == clearAccumulators(calculateDerivedData(Moved(b, duration)))
    IN  IF cleared.canSleep
        THEN (IF RLt(cleared.motion, sleepEpsilon)
              THEN setAwake(cleared, FALSE)
              ELSE IF RGt(cleared.motion, RMul(Num(10), sleepEpsilon))
                   THEN [cleared EXCEPT !.motion = RMul(Num(10), sleepEpsilon)]
                   ELSE cleared)
        ELSE cleared

\* integrate that does not test isAwake
RigidBody_integrate_noGuard(b, duration) == IntegrateAwake(b, duration)

RigidBody_integrate(b, duration) ==
    IF ~b.isAwake THEN b ELSE IntegrateAwake(b, duration)

RigidBody_setMass(b, mass) == [b EXCEPT !.inverseMass = RDiv(Num(1), mass)]

RigidBody_setInverseMass(b, inverseMass) == [b EXCEPT !.inverseMass = inverseMass]

RigidBody_hasFiniteMass(b) == RGe(b.inverseMass, Num(0))

\* the body of _checkInverseInertiaTensor is a comment: it accepts every tensor
_checkInverseInertiaTensor(iitWorld) == TRUE

setInertiaTensor(b, inertiaTensor) ==
    LET inverted == Mat3Invert(b.inverseInertiaTensor, inertiaTensor)
    IN  IF _checkInverseInertiaTensor(inverted)
        THEN [b EXCEPT !.inverseInertiaTensor = inverted]
        ELSE b

setInverseInertiaTensor(b, inverseInertiaTensor) ==
    IF _checkInverseInertiaTensor(inverseInertiaTensor)
    THEN [b EXCEPT !.inverseInertiaTensor = inverseInertiaTensor]
    ELSE b

setDamping(b, linearDamping, angularDamping) ==
    [b EXCEPT !.linearDamping = linearDamping, !.angularDamping = angularDamping]

\* addForce that adds the force and leaves isAwake as it is
RigidBody_addForce_noWake(b, force) ==
    [b EXCEPT !.forceAccum = V3Add(b.forceAccum, force)]

RigidBody_addForce(b, force) ==
    [b EXCEPT !.forceAccum = V3Add(b.forceAccum, force), !.isAwake = TRUE]

----------------------------------------------------------------------------
(* ParticleContact, src/src/pcontacts.ts.  A contact names its particles by *)
(* their ids, 0 for an absent slot 1; an element of particleMovement that   *)
(* was never assigned is Undefined.                                         *)

Undefined == <<>>

NewContact ==
    [particles |-> <<1, 0>>, restitution |-> Num(0), contactNormal |-> Zero3,
     penetration |-> Num(0), particleMovement |-> <<Undefined, Undefined>>]

\* if (this.particles[1])
HasSecond(c) == c.particles[2] # 0

calculateSeparatingVelocity(c, ps) ==
    LET v0 == ps[c.particles[1]].velocity
        relativeVelocity == IF HasSecond(c) THEN V3Sub(v0, ps[c.particles[2]].velocity)
                            ELSE v0
    IN  V3Dot(relativeVelocity, c.contactNormal)

\* this.particles[0].getInverseMass() (+ this.particles[1].getInverseMass())
TotalInverseMass(c, ps) ==
    IF HasSecond(c)
    THEN RAdd(ps[c.particles[1]].inverseMass, ps[c.particles[2]].inverseMass)
    ELSE ps[c.particles[1]].inverseMass

\* the separating velocity the contact is to have after the bounce
NewSepVelocity(c, ps, duration) ==
    LET separatingVelocity == calculateSeparatingVelocity(c, ps)
        bounced == RMul(RNeg(separatingVelocity), c.restitution)
        a0 == ps[c.particles[1]].acceleration
        accCausedVelocity == IF HasSecond(c)
                             THEN V3Sub(a0, ps[c.particles[2]].acceleration)
                             ELSE a0
        accCausedSepVelocity == RMul(V3Dot(accCausedVelocity, c.contactNormal), duration)
        reduced == RAdd(bounced, RMul(c.restitution, accCausedSepVelocity))
    IN  IF RLt(accCausedSepVelocity, Num(0))
        THEN (IF RLt(reduced, Num(0)) THEN Num(0) ELSE reduced)
        ELSE bounced

\* resolveVelocity with the impulse on particle 1 in the direction of the
\* impulse on particle 0
resolveVelocity_sameDirection(c, ps, duration) ==
    LET separatingVelocity == calculateSeparatingVelocity(c, ps)
        totalInverseMass == TotalInverseMass(c, ps)
    IN  IF RGt(separatingVelocity, Num(0)) \/ RLe(totalInverseMass, Num(0)) THEN ps
        ELSE LET i0 == c.particles[1]
                 i1 == c.particles[2]
                 impulse == RDiv(RSub(NewSepVelocity(c, ps, duration), separatingVelocity),
                                 totalInverseMass)
                 impulsePerIMass == V3Scale(c.contactNormal, impulse)
                 moved0 == [ps EXCEPT ![i0] = Particle_setVelocity(ps[i0],
                               V3ScaleAndAdd(ps[i0].velocity, impulsePerIMass,
                                             ps[i0].inverseMass))]
             IN  IF HasSecond(c)
                 THEN [moved0 EXCEPT ![i1] = Particle_setVelocity(moved0[i1],
                          V3ScaleAndAdd(moved0[i1].velocity, impulsePerIMass,
                                        moved0[i1].inverseMass))]
                 ELSE moved0

\* the particles as resolveVelocity leaves them
resolveVelocity(c, ps, duration) ==
    LET separatingVelocity == calculateSeparatingVelocity(c, ps)
        totalInverseMass == TotalInverseMass(c, ps)
    IN  IF RGt(separatingVelocity, Num(0)) \/ RLe(totalInverseMass, Num(0)) THEN ps
        ELSE LET i0 == c.particles[1]
                 i1 == c.particles[2]
                 impulse == RDiv(RSub(NewSepVelocity(c, ps, duration), separatingVelocity),
                                 totalInverseMass)
                 impulsePerIMass == V3Scale(c.contactNormal, impulse)
                 moved0 == [ps EXCEPT ![i0] = Particle_setVelocity(ps[i0],
                               V3ScaleAndAdd(ps[i0].velocity, impulsePerIMass,
                                             ps[i0].inverseMass))]
             IN  IF HasSecond(c)
                 THEN [moved0 EXCEPT ![i1] = Particle_setVelocity(moved0[i1],
                          V3ScaleAndAdd(moved0[i1].velocity, impulsePerIMass,
                                        RNeg(moved0[i1].inverseMass)))]
                 ELSE moved0

\* what a call on a contact leaves: the contact, the particles, and whether
\* it threw
Outcome(c, ps, threw) == [contact |-> c, particles |-> ps, raised |-> threw]

\* resolveInterpenetration that moves both particles by the same amount
resolveInterpenetration_equalShare(c, ps, duration) ==
    LET totalInverseMass == TotalInverseMass(c, ps)
    IN  IF RLe(c.penetration, Num(0)) \/ RLe(totalInverseMass, Num(0))
        THEN Outcome(c, ps, FALSE)
        ELSE LET i0 == c.particles[1]
                 i1 == c.particles[2]
                 half == V3Scale(c.contactNormal, RDiv(c.penetration, Num(2)))
                 movement0 == half
             IN  IF HasSecond(c)
                 THEN LET movement1 == V3Scale(half, Num(-1))
                          moved0 == [ps EXCEPT ![i0] = Particle_setPosition(ps[i0],
                                        V3Add(ps[i0].position, movement0))]
                      IN  Outcome([c EXCEPT !.particleMovement = <<movement0, movement1>>],
                                  [moved0 EXCEPT ![i1] = Particle_setPosition(moved0[i1],
                                      V3Add(moved0[i1].position, movement1))],
                                  FALSE)
                 ELSE Outcome([c EXCEPT !.particleMovement[1] = movement0], ps, TRUE)

\* resolveInterpenetration.  With slot 1 absent, vec3.zero(this.particleMovement[1])
\* writes into the element the call found there: into undefined, which throws
\* before any position is set, when it was never assigned.
resolveInterpenetration(c, ps, duration) ==
    LET totalInverseMass == TotalInverseMass(c, ps)
    IN  IF RLe(c.penetration, Num(0)) \/ RLe(totalInverseMass, Num(0))
        THEN Outcome(c, ps, FALSE)
        ELSE LET i0 == c.particles[1]
                 i1 == c.particles[2]
                 movePerIMass == V3Scale(c.contactNormal,
                                         RDiv(c.penetration, totalInverseMass))
                 movement0 == V3Scale(movePerIMass, ps[i0].inverseMass)
                 moved0 == [ps EXCEPT ![i0] = Particle_setPosition(ps[i0],
                               V3Add(ps[i0].position, movement0))]
             IN  IF HasSecond(c)
                 THEN LET movement1 == V3Scale(movePerIMass, RNeg(ps[i1].inverseMass))
                      IN  Outcome([c EXCEPT !.particleMovement = <<movement0, movement1>>],
                                  [moved0 EXCEPT ![i1] = Particle_setPosition(moved0[i1],
                                      V3Add(moved0[i1].position, movement1))],
                                  FALSE)
                 ELSE IF c.particleMovement[2] = Undefined
                 THEN Outcome([c EXCEPT !.particleMovement[1] = movement0], ps, TRUE)
                 ELSE Outcome([c EXCEPT !.particleMovement = <<movement0, Zero3>>],
                              moved0, FALSE)

\* resolve: resolveVelocity, then resolveInterpenetration
resolve(c, ps, duration) ==
    resolveInterpenetration(c, resolveVelocity(c, ps, duration), duration)

----------------------------------------------------------------------------
(* ParticleContactResolver, src/src/pcontacts.ts.  Array indices are the    *)
(* source's: contactArray[i] is contacts[i + 1].                            *)

\* a resolver as `new ParticleContactResolver(n)` leaves it: the constructor
\* body is empty, so neither field is assigned.  requested and assigned are
\* bookkeeping: the constructor's argument, and whether the owner has
\* written the public field iterations since.
NewResolver(n) ==
    [iterations |-> Undefined, iterationsUsed |-> Undefined,
     requested |-> n, assigned |-> FALSE]

\* a < b for numbers that may be undefined: false when one of them is
Below(a, b) == a # Undefined /\ b # Undefined /\ RLt(a, b)

\* sepVel < 0 || contactArray[i].penetration > 0
Qualifies(c, ps) ==
    RLt(calculateSeparatingVelocity(c, ps), Num(0)) \/ RGt(c.penetration, Num(0))

\* the first contact of the batch that qualifies, whatever its velocity
SelectContact_firstQualifying(cs, ps, numContacts) ==
    LET Q == {i \in 0..(numContacts - 1) : i < Len(cs) /\ Qualifies(cs[i + 1], ps)}
    IN  IF Q = {} THEN numContacts ELSE CHOOSE i \in Q : \A j \in Q : i <= j

RECURSIVE Scan(_, _, _, _, _, _)
\* the for loop that looks for the contact to resolve, from index i on
Scan(cs, ps, numContacts, i, max, maxIndex) ==
    IF ~(i < numContacts /\ i < Len(cs)) THEN maxIndex
    ELSE LET sepVel == calculateSeparatingVelocity(cs[i + 1], ps)
         IN  IF RLt(sepVel, max) /\ Qualifies(cs[i + 1], ps)
             THEN Scan(cs, ps, numContacts, i + 1, sepVel, i)
             ELSE Scan(cs, ps, numContacts, i + 1, max, maxIndex)

\* maxIndex after the loop; numContacts when nothing is worth resolving
SelectContact(cs, ps, numContacts) ==
    Scan(cs, ps, numContacts, 0, Infinity, numContacts)

\* the statements of the coupling loop that run for contact c after contact
\* r was resolved, in order: <<sign, k>> stands for
\* penetration (+= or -=) vec3.dot(move[k], contactNormal)
Adjustments(c, r) ==
    LET first == IF c.particles[1] = r.particles[1] THEN <<<<-1, 0>>>>
                 ELSE IF c.particles[1] = r.particles[2] THEN <<<<-1, 1>>>>
                 ELSE <<>>
        second == IF c.particles[2] = r.particles[1] THEN <<<<-1, 0>>>>
                  ELSE IF c.particles[1] = r.particles[2] THEN <<<<-1, 1>>>>
                  ELSE <<>>
        third == IF c.particles[2] = r.particles[1] THEN <<<<1, 0>>>>
                 ELSE IF c.particles[2] = r.particles[2] THEN <<<<1, 1>>>>
                 ELSE <<>>
    IN  IF HasSecond(c) THEN first \o second \o third ELSE first

\* F applied to the value of v, v computed once
Bind(v, F(_)) == CHOOSE y \in {F(x) : x \in {v}} : TRUE

RECURSIVE Adjusted(_, _, _, _)
\* the penetration the statements adjs leave, and whether one of them threw:
\* vec3.dot reads the elements of move[k], which throws when move[k] was
\* never assigned
Adjusted(penetration, adjs, move, normal) ==
    IF adjs = <<>> THEN [penetration |-> penetration, raised |-> FALSE]
    ELSE LET m == move[Head(adjs)[2] + 1]
         IN  IF m = Undefined THEN [penetration |-> penetration, raised |-> TRUE]
             ELSE Bind(RAdd(penetration, RMul(Num(Head(adjs)[1]), V3Dot(m, normal))),
                       LAMBDA p : Adjusted(p, Tail(adjs), move, normal))

RECURSIVE Couple(_, _, _, _)
\* the coupling loop from index i on, after contactArray[maxIndex] was
\* resolved: the contacts it leaves, and whether it threw
Couple(cs, maxIndex, numContacts, i) ==
    IF ~(i < numContacts) THEN [contacts |-> cs, raised |-> FALSE]
    ELSE IF ~(i < Len(cs)) THEN [contacts |-> cs, raised |-> TRUE]
    ELSE Bind(Adjusted(cs[i + 1].penetration,
                       Adjustments(cs[i + 1], cs[maxIndex + 1]),
                       cs[maxIndex + 1].particleMovement, cs[i + 1].contactNormal),
              LAMBDA a :
                  Bind([cs EXCEPT ![i + 1].penetration = a.penetration],
                       LAMBDA adjusted :
                           IF a.raised THEN [contacts |-> adjusted, raised |-> TRUE]
                           ELSE Couple(adjusted, maxIndex, numContacts, i + 1)))

\* one started iteration of the while loop, as the log keeps it
Iteration(maxIndex, cs, ps, resolved, after, threw) ==
    [index |-> maxIndex, contacts |-> cs, particles |-> ps,
     resolved |-> resolved, after |-> after, raised |-> threw]

\* contactArray[maxIndex].resolve(duration) and the coupling loop: the state
\* of the call after them, iterationsUsed not yet incremented
Resolved(st, maxIndex, numContacts, duration) ==
    Bind(resolve(st.contacts[maxIndex + 1], st.particles, duration),
         LAMBDA o :
             Bind([st.contacts EXCEPT ![maxIndex + 1] = o.contact],
                  LAMBDA resolved :
                      Bind(IF o.raised THEN [contacts |-> resolved, raised |-> TRUE]
                           ELSE Couple(resolved, maxIndex, numContacts, 0),
                           LAMBDA coupled :
                               [st EXCEPT !.contacts = coupled.contacts,
                                          !.particles = o.particles,
                                          !.raised = coupled.raised,
                                          !.log = Append(st.log,
                                              Iteration(maxIndex, st.contacts, st.particles,
                                                        resolved, coupled.contacts,
                                                        coupled.raised))])))

RECURSIVE Iterate(_, _, _, _)
\* the while loop of resolveContacts from the state st on
Iterate(st, iterations, numContacts, duration) ==
    IF ~Below(Num(st.iterationsUsed), iterations) THEN st
    ELSE Bind(SelectContact(st.contacts, st.particles, numContacts),
              LAMBDA maxIndex :
                  IF maxIndex = numContacts THEN st
                  ELSE Bind(Resolved(st, maxIndex, numContacts, duration),
                            LAMBDA left :
                                IF left.raised THEN left
                                ELSE Bind([left EXCEPT !.iterationsUsed = @ + 1],
                                          LAMBDA next :
                                              Iterate(next, iterations, numContacts,
                                                      duration))))

\* resolveContacts: the contacts, the particles, iterationsUsed, whether the
\* call threw, and the iterations it started
resolveContacts(r, cs, ps, numContacts, duration) ==
    Iterate([contacts |-> cs, particles |-> ps, iterationsUsed |-> 0,
             raised |-> FALSE, log |-> <<>>],
            r.iterations, numContacts, duration)

----------------------------------------------------------------------------
(* The inputs the operations are called with *)

\* step durations: -1 and 0 are what a stalled or misbehaving clock supplies
Durations == {Num(k) : k \in (0 - 1)..MaxDuration}

\* inverse masses: immovable, mass 1, mass 2
InverseMasses == {Num(0), Num(1), Rat(1, 2)}

Dampings == {Num(0), Num(1), Rat(1, 2)}

Vectors == {Zero3, Vec(1, -2, 0)}

Forces == {Vec(0, 2, 0), Vec(-1, 0, 3)}

----------------------------------------------------------------------------
(* Operations.  Each records itself in op and the state it started from in *)
(* before.                                                                  *)

Snapshot ==
    [particles |-> particles, gens |-> gens, registrations |-> registrations,
     body |-> body, contacts |-> contacts]

Called(name, i, arg) ==
    /\ ncalls < MaxCalls
    /\ ncalls' = ncalls + 1
    /\ op' = [name |-> name, i |-> i, arg |-> arg]
    /\ before' = Snapshot

\* a call on a particle, a generator, the registry or the body: none of them
\* throws, none of them reaches a contact
Call(name, i, arg) ==
    /\ Called(name, i, arg)
    /\ raised' = FALSE
    /\ UNCHANGED <<contacts, resolver, iterlog>>

\* a run of integrate calls that starts at particle state p
RunFrom(p) == [start |-> p, elapsed |-> Num(0), steps |-> 0]

SetParticle(i, p) ==
    /\ particles' = [particles EXCEPT ![i] = p]
    /\ UNCHANGED <<gens, registrations, body, added, invoked>>

OnlyParticle(i, p) ==
    /\ SetParticle(i, p)
    /\ run' = [run EXCEPT ![i] = RunFrom(p)]

ParticleIntegrate(i, duration) ==
    /\ Call("integrate", i, duration)
    /\ SetParticle(i, Particle_integrate(particles[i], duration))
    /\ run' = [run EXCEPT ![i] =
                  IF RGt(duration, Num(0))
                  THEN [@ EXCEPT !.elapsed = RAdd(@, duration), !.steps = @ + 1]
                  ELSE RunFrom(particles'[i])]
    /\ UNCHANGED accSet

ParticleSetInverseMass(i, inverseMass) ==
    /\ Call("setInverseMass", i, inverseMass)
    /\ OnlyParticle(i, Particle_setInverseMass(particles[i], inverseMass))
    /\ UNCHANGED accSet

ParticleSetMass(i, mass) ==
    /\ Call("setMass", i, mass)
    /\ OnlyParticle(i, Particle_setMass(particles[i], mass))
    /\ UNCHANGED accSet

ParticleSetDamping(i, damping) ==
    /\ Call("setDamping", i, damping)
    /\ OnlyParticle(i, Particle_setDamping(particles[i], damping))
    /\ UNCHANGED accSet

ParticleSetPosition(i, position) ==
    /\ Call("setPosition", i, position)
    /\ OnlyParticle(i, Particle_setPosition(particles[i], position))
    /\ UNCHANGED accSet

ParticleSetVelocity(i, velocity) ==
    /\ Call("setVelocity", i, velocity)
    /\ OnlyParticle(i, Particle_setVelocity(particles[i], velocity))
    /\ UNCHANGED accSet

ParticleSetAcceleration(i, acceleration) ==
    /\ Call("setAcceleration", i, acceleration)
    /\ OnlyParticle(i, Particle_setAcceleration(particles[i], acceleration))
    /\ accSet' = [accSet EXCEPT ![i] = acceleration]

ParticleClearAccumulator(i) ==
    /\ Call("clearAccumulator", i, Num(0))
    /\ OnlyParticle(i, clearAccumulator(particles[i]))
    /\ UNCHANGED accSet

ParticleAddForce(i, force) ==
    /\ Call("addForce", i, force)
    /\ OnlyParticle(i, Particle_addForce(particles[i], force))
    /\ UNCHANGED accSet

----------------------------------------------------------------------------
(* A single particle driven through its interface *)

NoOp == [name |-> "new", i |-> 0, arg |-> Num(0)]

\* one generator of each class, as constructed; the fake spring in three
\* configurations: discriminant negative, zero and positive
GenIds ==
    {"gravity", "drag", "spring", "anchoredSpring", "buoyancy", "bungee",
     "anchoredBungee", "fakeSpring", "fakeSpringCritical", "fakeSpringUnder"}

Anchor == Vec(4, 0, 0)

InitGens ==
    [g \in GenIds |->
        CASE g = "gravity" -> [kind |-> g, gravity |-> Vec(0, -2, 0)]
          [] g = "drag" -> [kind |-> g, k1 |-> Num(1), k2 |-> Rat(1, 2)]
          [] g = "spring" ->
                [kind |-> g, other |-> 2, springConstant |-> Num(2),
                 restLength |-> Rat(9, 2)]
          [] g = "anchoredSpring" ->
                [kind |-> g, anchor |-> Anchor, springConstant |-> Num(1),
                 restLength |-> Num(2)]
          [] g = "buoyancy" ->
                [kind |-> g, maxDepth |-> Num(2), volume |-> Num(1),
                 waterHeight |-> Num(2), liquidDensity |-> Num(3)]
          [] g = "bungee" ->
                [kind |-> g, other |-> 2, springConstant |-> Num(2),
                 restLength |-> Rat(9, 2)]
          [] g = "anchoredBungee" ->
                [kind |-> g, anchor |-> Anchor, springConstant |-> Num(1),
                 restLength |-> Num(4)]
          [] g = "fakeSpring" ->
                [kind |-> "fakeSpring", anchor |-> Anchor,
                 springConstant |-> Num(1), damping |-> Num(3)]
          [] g = "fakeSpringCritical" ->
                [kind |-> "fakeSpring", anchor |-> Anchor,
                 springConstant |-> Num(1), damping |-> Num(2)]
          [] g = "fakeSpringUnder" ->
                [kind |-> "fakeSpring", anchor |-> Anchor,
                 springConstant |-> Num(1), damping |-> Num(0)]]

InitParticle ==
    /\ \E m \in InverseMasses, d \in Dampings, v \in Vectors, a \in Vectors :
          /\ particles = [i \in ParticleIds |->
                            IF i = 1
                            THEN [NewParticle EXCEPT !.inverseMass = m,
                                                     !.damping = d,
                                                     !.velocity = v,
                                                     !.acceleration = a]
                            ELSE NewParticle]
          /\ accSet = [i \in ParticleIds |-> IF i = 1 THEN a ELSE Zero3]
    /\ gens = InitGens
    /\ registrations = <<>>
    /\ body = NewBody
    /\ op = NoOp
    /\ contacts = <<>>
    /\ raised = FALSE
    /\ resolver = NewResolver(1)
    /\ iterlog = <<>>
    /\ before = Snapshot
    /\ added = <<>>
    /\ invoked = <<>>
    /\ run = [i \in ParticleIds |-> RunFrom(particles[i])]
    /\ ncalls = 0

NextParticle ==
    \/ \E d \in Durations : ParticleIntegrate(1, d)
    \/ \E m \in InverseMasses : ParticleSetInverseMass(1, m)
    \/ \E m \in {Num(2)} : ParticleSetMass(1, m)
    \/ \E d \in Dampings : ParticleSetDamping(1, d)
    \/ \E x \in Vectors : ParticleSetPosition(1, x)
    \/ \E v \in Vectors : ParticleSetVelocity(1, v)
    \/ \E a \in Vectors : ParticleSetAcceleration(1, a)
    \/ ParticleClearAccumulator(1)
    \/ \E f \in Forces : ParticleAddForce(1, f)

SpecParticle == InitParticle /\ [][NextParticle]_vars

----------------------------------------------------------------------------
(* Force generators called on particles, and the registry *)

\* fg.updateForce(particle, duration), called directly
GenUpdateForce(g, i, duration) ==
    /\ HasLen(LengthTaken(gens[g], particles, i))
    /\ FakeSpringComputable(gens[g], duration)
    /\ Call("updateForce", i, [fg |-> g, duration |-> duration])
    /\ LET a == updateForce(gens[g], particles, i, duration)
       IN  /\ particles' = [particles EXCEPT ![i] = a.particle]
           /\ gens' = [gens EXCEPT ![g] = a.fg]
    /\ run' = [run EXCEPT ![i] = RunFrom(particles'[i])]
    /\ UNCHANGED <<registrations, body, accSet, added, invoked>>

RegistryAdd(i, g) ==
    /\ Call("add", i, g)
    /\ registrations' = ParticleForceRegistry_add(registrations, i, g)
    /\ added' = Append(added, Registration(i, g))
    /\ UNCHANGED <<particles, gens, body, accSet, invoked, run>>

RegistryRemove(i, g) ==
    /\ Call("remove", i, g)
    /\ registrations' = ParticleForceRegistry_remove(registrations, i, g)
    /\ added' = SelectSeq(added, LAMBDA r : r # Registration(i, g))
    /\ UNCHANGED <<particles, gens, body, accSet, invoked, run>>

RegistryClear ==
    /\ Call("clear", 0, Num(0))
    /\ registrations' = ParticleForceRegistry_clear(registrations)
    /\ added' = <<>>
    /\ UNCHANGED <<particles, gens, body, accSet, invoked, run>>

RegistryUpdateForces(duration) ==
    /\ \A k \in 1..Len(registrations) :
          HasLen(LengthTaken(gens[registrations[k].fg], particles,
                             registrations[k].particle))
    /\ Call("updateForces", 0, duration)
    /\ LET w == ParticleForceRegistry_updateForces(registrations, particles, gens,
                                                   duration)
       IN  /\ particles' = w.particles
           /\ gens' = w.gens
           /\ invoked' = w.invoked
    /\ run' = [i \in ParticleIds |-> RunFrom(particles'[i])]
    /\ UNCHANGED <<registrations, body, accSet, added>>

\* two particles placed so that every length a generator takes is rational
InitForceWith(masses, positions, velocities) ==
    /\ \E m \in masses, x \in positions, v \in velocities :
          particles = [i \in ParticleIds |->
                          IF i = 1
                          THEN [NewParticle EXCEPT !.inverseMass = m,
                                                   !.position = x,
                                                   !.velocity = v]
                          ELSE [NewParticle EXCEPT !.inverseMass = Num(1),
                                                   !.position = Vec(4, 3, 0)]]
    /\ accSet = [i \in ParticleIds |-> Zero3]
    /\ gens = InitGens
    /\ registrations = <<>>
    /\ body = NewBody
    /\ op = NoOp
    /\ contacts = <<>>
    /\ raised = FALSE
    /\ resolver = NewResolver(1)
    /\ iterlog = <<>>
    /\ before = Snapshot
    /\ added = <<>>
    /\ invoked = <<>>
    /\ run = [i \in ParticleIds |-> RunFrom(particles[i])]
    /\ ncalls = 0

InitForce ==
    InitForceWith(InverseMasses, {Zero3, Vec(0, 3, 0)}, {Zero3, Vec(0, -3, 4)})

\* particle 1 is the particle acted on; particle 2 is the other end of the
\* spring and of the bungee
NextForce ==
    \E g \in GenIds, d \in Durations :
        ncalls < MaxForceCalls /\ GenUpdateForce(g, 1, d)

SpecForce == InitForce /\ [][NextForce]_vars

\* the generators a registry is filled with
RegistryGens == {"gravity", "drag", "spring"}

NextRegistry ==
    \/ \E i \in ParticleIds, g \in RegistryGens : RegistryAdd(i, g)
    \/ \E i \in ParticleIds, g \in RegistryGens : RegistryRemove(i, g)
    \/ RegistryClear
    \/ \E d \in Durations : RegistryUpdateForces(d)

InitRegistry == InitForceWith({Num(0), Rat(1, 2)}, {Vec(0, 3, 0)}, {Vec(0, -3, 4)})

SpecRegistry == InitRegistry /\ [][NextRegistry]_vars

----------------------------------------------------------------------------
(* A rigid body driven through its interface *)

OnlyBody(b) ==
    /\ body' = b
    /\ UNCHANGED <<particles, gens, registrations, accSet, added, invoked, run>>

\* every number of the vector is NaN, infinite, or a fraction whose
\* denominator the model's integers hold with room to spare
Representable(v) == \A k \in DOMAIN v : v[k][2] <= MaxDenominator

BodyIntegrate(duration) ==
    /\ ncalls < MaxBodyCalls
    /\ body.isAwake =>
          /\ QuatHasLen(Moved(body, duration).orientation)
          /\ Representable(Moved(body, duration).velocity)
          /\ Representable(Moved(body, duration).position)
    /\ Call("body.integrate", 0, duration)
    /\ OnlyBody(RigidBody_integrate(body, duration))

BodyCalculateDerivedData ==
    /\ QuatHasLen(body.orientation)
    /\ ncalls < MaxBodyCalls
    /\ Call("body.calculateDerivedData", 0, Num(0))
    /\ OnlyBody(calculateDerivedData(body))

BodySetInverseMass(inverseMass) ==
    /\ ncalls < MaxBodyCalls
    /\ Call("body.setInverseMass", 0, inverseMass)
    /\ OnlyBody(RigidBody_setInverseMass(body, inverseMass))

BodySetMass(mass) ==
    /\ ncalls < MaxBodyCalls
    /\ Call("body.setMass", 0, mass)
    /\ OnlyBody(RigidBody_setMass(body, mass))

BodySetDamping(linearDamping, angularDamping) ==
    /\ ncalls < MaxBodyCalls
    /\ Call("body.setDamping", 0, <<linearDamping, angularDamping>>)
    /\ OnlyBody(setDamping(body, linearDamping, angularDamping))

BodyAddForce(force) ==
    /\ ncalls < MaxBodyCalls
    /\ Call("body.addForce", 0, force)
    /\ OnlyBody(RigidBody_addForce(body, force))

\* a diagonal 3x3 tensor
Diag(x, y, z) ==
    <<Num(x), Num(0), Num(0), Num(0), Num(y), Num(0), Num(0), Num(0), Num(z)>>

\* the tensors handed to the setters: an invertible one and two singular ones
Tensors == {Diag(2, 2, 4), Diag(1, 0, 1), Diag(0, 0, 0)}

BodySetInertiaTensor(inertiaTensor) ==
    /\ ncalls < MaxBodyCalls
    /\ Call("body.setInertiaTensor", 0, inertiaTensor)
    /\ OnlyBody(setInertiaTensor(body, inertiaTensor))

BodySetInverseInertiaTensor(inverseInertiaTensor) ==
    /\ ncalls < MaxBodyCalls
    /\ Call("body.setInverseInertiaTensor", 0, inverseInertiaTensor)
    /\ OnlyBody(setInverseInertiaTensor(body, inverseInertiaTensor))

BodySetAwake(awake) ==
    /\ ncalls < MaxBodyCalls
    /\ Call("body.setAwake", 0, awake)
    /\ OnlyBody(setAwake(body, awake))

BodyClearAccumulators ==
    /\ ncalls < MaxBodyCalls
    /\ Call("body.clearAccumulators", 0, Num(0))
    /\ OnlyBody(clearAccumulators(body))

\* a body as constructed, its public fields inverseMass, acceleration,
\* canSleep and torqueAccum written by its owner
InitBody ==
    /\ \E m \in InverseMasses, a \in {Zero3, Vec(0, -2, 0)}, c \in BOOLEAN,
          t \in {Zero3, Vec(0, 0, 1)} :
          body = [NewBody EXCEPT !.inverseMass = m, !.acceleration = a,
                                 !.canSleep = c, !.torqueAccum = t]
    /\ particles = [i \in ParticleIds |-> NewParticle]
    /\ accSet = [i \in ParticleIds |-> Zero3]
    /\ gens = InitGens
    /\ registrations = <<>>
    /\ op = NoOp
    /\ contacts = <<>>
    /\ raised = FALSE
    /\ resolver = NewResolver(1)
    /\ iterlog = <<>>
    /\ before = Snapshot
    /\ added = <<>>
    /\ invoked = <<>>
    /\ run = [i \in ParticleIds |-> RunFrom(particles[i])]
    /\ ncalls = 0

NextBody ==
    \/ \E d \in Durations : BodyIntegrate(d)
    \/ BodyCalculateDerivedData
    \/ \E m \in InverseMasses : BodySetInverseMass(m)
    \/ \E m \in {Num(2)} : BodySetMass(m)
    \/ \E d \in {Num(1), Rat(1, 2)} : BodySetDamping(d, d)
    \/ \E f \in Forces : BodyAddForce(f)
    \/ \E t \in Tensors : BodySetInertiaTensor(t)
    \/ \E t \in Tensors : BodySetInverseInertiaTensor(t)
    \/ \E a \in BOOLEAN : BodySetAwake(a)
    \/ BodyClearAccumulators

SpecBody == InitBody /\ [][NextBody]_vars

\* An awake body that is only integrated and refreshed: setAwake(true) has
\* been called on a new body and its owner has written the public fields
\* inverseMass, acceleration, rotation and torqueAccum
SpinIntegrate(duration) ==
    /\ ncalls < MaxSpinCalls
    /\ body.isAwake =>
          /\ QuatHasLen(Moved(body, duration).orientation)
          /\ Representable(Moved(body, duration).velocity)
          /\ Representable(Moved(body, duration).position)
          /\ Representable(Moved(body, duration).rotation)
    /\ Call("body.integrate", 0, duration)
    /\ OnlyBody(RigidBody_integrate(body, duration))

SpinCalculateDerivedData ==
    /\ ncalls < MaxSpinCalls
    /\ QuatHasLen(body.orientation)
    /\ Call("body.calculateDerivedData", 0, Num(0))
    /\ OnlyBody(calculateDerivedData(body))

InitSpin ==
    /\ \E m \in InverseMasses, a \in {Zero3, Vec(0, -2, 0)},
          r \in {Zero3, Vec(0, 0, 15)}, t \in {Zero3, Vec(0, 0, 1)} :
          body = [setAwake(NewBody, TRUE) EXCEPT !.inverseMass = m, !.acceleration = a,
                                                 !.rotation = r, !.torqueAccum = t]
    /\ particles = [i \in ParticleIds |-> NewParticle]
    /\ accSet = [i \in ParticleIds |-> Zero3]
    /\ gens = InitGens
    /\ registrations = <<>>
    /\ op = NoOp
    /\ contacts = <<>>
    /\ raised = FALSE
    /\ resolver = NewResolver(1)
    /\ iterlog = <<>>
    /\ before = Snapshot
    /\ added = <<>>
    /\ invoked = <<>>
    /\ run = [i \in ParticleIds |-> RunFrom(particles[i])]
    /\ ncalls = 0

NextSpin ==
    \/ \E d \in {d \in Durations : RGt(d, Num(0))} : SpinIntegrate(d)
    \/ SpinCalculateDerivedData

SpecSpin == InitSpin /\ [][NextSpin]_vars

----------------------------------------------------------------------------
(* A contact between particle 1 and particle 2, or between particle 1 and   *)
(* the scenery, resolved through the methods of ParticleContact            *)

\* contact k is left as the outcome o of a call on it
ContactBecomes(k, o) ==
    /\ contacts' = [contacts EXCEPT ![k] = o.contact]
    /\ particles' = o.particles
    /\ raised' = o.raised
    /\ run' = [i \in ParticleIds |-> RunFrom(particles'[i])]
    /\ UNCHANGED <<gens, registrations, body, accSet, added, invoked, resolver, iterlog>>

ContactResolveVelocity(k, duration) ==
    /\ ncalls < MaxContactCalls
    /\ Called("resolveVelocity", k, duration)
    /\ ContactBecomes(k, Outcome(contacts[k],
                                 resolveVelocity(contacts[k], particles, duration),
                                 FALSE))

ContactResolveInterpenetration(k, duration) ==
    /\ ncalls < MaxContactCalls
    /\ Called("resolveInterpenetration", k, duration)
    /\ ContactBecomes(k, resolveInterpenetration(contacts[k], particles, duration))

ContactResolve(k, duration) ==
    /\ ncalls < MaxContactCalls
    /\ Called("resolve", k, duration)
    /\ ContactBecomes(k, resolve(contacts[k], particles, duration))

\* unit contact normals
Normals == {Vec(1, 0, 0), <<Rat(3, 5), Rat(4, 5), Num(0)>>}

\* one contact, its fields and its particles' fields written by the
\* collision detector that made it
InitContact ==
    /\ \E m1 \in InverseMasses, m2 \in {Num(0), Num(1)},
          v1 \in {Vec(-1, 2, 0), Vec(1, 0, 0)}, v2 \in {Vec(1, 0, 0), Zero3},
          a1 \in {Zero3, Vec(0, -2, 0)} :
          particles = [i \in ParticleIds |->
                          IF i = 1
                          THEN [NewParticle EXCEPT !.inverseMass = m1,
                                                   !.velocity = v1,
                                                   !.acceleration = a1]
                          ELSE [NewParticle EXCEPT !.inverseMass = m2,
                                                   !.velocity = v2,
                                                   !.position = Vec(4, 3, 0)]]
    /\ \E second \in {0, 2}, r \in {Rat(1, 2), Num(1)}, n \in Normals,
          pen \in {Num(0), Num(2)} :
          contacts = <<[NewContact EXCEPT !.particles = <<1, second>>,
                                          !.restitution = r,
                                          !.contactNormal = n,
                                          !.penetration = pen]>>
    /\ raised = FALSE
    /\ resolver = NewResolver(1)
    /\ iterlog = <<>>
    /\ accSet = [i \in ParticleIds |-> particles[i].acceleration]
    /\ gens = InitGens
    /\ registrations = <<>>
    /\ body = NewBody
    /\ op = NoOp
    /\ before = Snapshot
    /\ added = <<>>
    /\ invoked = <<>>
    /\ run = [i \in ParticleIds |-> RunFrom(particles[i])]
    /\ ncalls = 0

NextContact ==
    \/ \E d \in Durations : ContactResolveVelocity(1, d)
    \/ \E d \in Durations : ContactResolveInterpenetration(1, d)
    \/ \E d \in Durations : ContactResolve(1, d)

SpecContact == InitContact /\ [][NextContact]_vars

----------------------------------------------------------------------------
(* A resolver and a batch of contacts between two particles *)

\* the owner writes the public field iterations
ResolverSetIterations(n) ==
    /\ ncalls < MaxResolverCalls
    /\ Called("setIterations", 0, Num(n))
    /\ resolver' = [resolver EXCEPT !.iterations = Num(n), !.assigned = TRUE]
    /\ raised' = FALSE
    /\ UNCHANGED <<particles, gens, registrations, body, accSet, added, invoked, run,
                   contacts, iterlog>>

ResolveContacts(numContacts, duration) ==
    /\ ncalls < MaxResolverCalls
    /\ Called("resolveContacts", numContacts, duration)
    /\ \E o \in {resolveContacts(resolver, contacts, particles, numContacts, duration)} :
           /\ contacts' = o.contacts
           /\ particles' = o.particles
           /\ raised' = o.raised
           /\ resolver' = [resolver EXCEPT !.iterationsUsed = Num(o.iterationsUsed)]
           /\ iterlog' = o.log
    /\ run' = [i \in ParticleIds |-> RunFrom(particles'[i])]
    /\ UNCHANGED <<gens, registrations, body, accSet, added, invoked>>

\* the particle slots of the contacts of a batch; 0 is an absent slot 1
Batches ==
    {<<<<1, 2>>>>, <<<<1, 0>>>>, <<<<1, 2>>, <<2, 1>>>>, <<<<1, 0>>, <<2, 0>>>>,
     <<<<1, 0>>, <<1, 2>>>>, <<<<1, 2>>, <<1, 2>>>>}

\* a new resolver and a batch of new contacts, their fields and their
\* particles' fields written by the collision detector that made them
InitResolver ==
    /\ \E m1 \in {Num(1), Rat(1, 2)}, m2 \in {Num(0), Num(1)},
          v1 \in {Vec(-1, 2, 0), Vec(1, 0, 0)}, v2 \in {Vec(1, 0, 0), Zero3} :
          particles = [i \in ParticleIds |->
                          IF i = 1
                          THEN [NewParticle EXCEPT !.inverseMass = m1, !.velocity = v1]
                          ELSE [NewParticle EXCEPT !.inverseMass = m2, !.velocity = v2,
                                                   !.position = Vec(4, 3, 0)]]
    /\ \E b \in Batches, n \in Normals, pen1 \in {Num(0), Num(2)},
          pen2 \in {Num(0), Num(2)} :
          contacts = [k \in DOMAIN b |->
                         [NewContact EXCEPT !.particles = b[k],
                                            !.restitution = Rat(1, 2),
                                            !.contactNormal = IF k = 1 THEN Vec(1, 0, 0) ELSE n,
                                            !.penetration = IF k = 1 THEN pen1 ELSE pen2]]
    /\ resolver = NewResolver(MaxIterations)
    /\ iterlog = <<>>
    /\ raised = FALSE
    /\ accSet = [i \in ParticleIds |-> particles[i].acceleration]
    /\ gens = InitGens
    /\ registrations = <<>>
    /\ body = NewBody
    /\ op = NoOp
    /\ before = Snapshot
    /\ added = <<>>
    /\ invoked = <<>>
    /\ run = [i \in ParticleIds |-> RunFrom(particles[i])]
    /\ ncalls = 0

NextResolver ==
    \/ \E n \in 0..MaxIterations : ResolverSetIterations(n)
    \/ \E numContacts \in 1..Len(contacts) : ResolveContacts(numContacts, Num(1))

SpecResolver == InitResolver /\ [][NextResolver]_vars

----------------------------------------------------------------------------
(* Claims about Particle, checked under SpecParticle *)

IntegratedFor(i) == op.name = "integrate" /\ op.i = i /\ RGt(op.arg, Num(0))

\* C1: after any sequence of addForce and integrate calls the acceleration
\* field of a particle is the value last given to setAcceleration.
C1_AccelerationPersistent ==
    \A i \in ParticleIds : particles[i].acceleration = accSet[i]

\* C2: right after integrate(duration) with duration > 0 the force accumulator
\* is the zero vector, whatever was accumulated before the call.
C2_ForceAccumCleared ==
    \A i \in ParticleIds : IntegratedFor(i) => particles[i].forceAccum = Zero3

C2_Witness ==
    /\ IntegratedFor(1)
    /\ before.particles[1].forceAccum # Zero3
    /\ particles[1].forceAccum = Zero3

\* a particle on which neither a force nor an acceleration acts, undamped
Free(p) == p.acceleration = Zero3 /\ p.forceAccum = Zero3 /\ p.damping = Num(1)

\* C3: integrate(dt), dt > 0, moves the position by the velocity held before
\* the step times dt and sets the velocity to
\* (v + (acceleration + forceAccum * inverseMass) * dt) * damping^dt; a free,
\* undamped particle is at start + velocity * (elapsed time) after any number
\* of steps, its velocity unchanged.
C3_IntegrateStep ==
    \A i \in ParticleIds :
        IntegratedFor(i) =>
            LET p0 == before.particles[i]
                p1 == particles[i]
                dt == op.arg
                stepAcc == V3Add(p0.acceleration, V3Scale(p0.forceAccum, p0.inverseMass))
                r == run[i]
            IN  /\ p1.position = V3Add(p0.position, V3Scale(p0.velocity, dt))
                /\ p1.velocity = V3Scale(V3Add(p0.velocity, V3Scale(stepAcc, dt)),
                                         Pow(p0.damping, dt))
                /\ Free(r.start) =>
                      /\ p1.position = V3Add(r.start.position,
                                             V3Scale(r.start.velocity, r.elapsed))
                      /\ p1.velocity = r.start.velocity

C3_Witness ==
    /\ IntegratedFor(1)
    /\ before.particles[1].forceAccum # Zero3
    /\ before.particles[1].velocity # Zero3
    /\ before.particles[1].acceleration # Zero3
    /\ RGt(before.particles[1].inverseMass, Num(0))
    /\ before.particles[1].damping = Rat(1, 2)
    /\ particles[1].position # before.particles[1].position

\* a free particle that has moved through two or more steps of a run
FreeRunOfTwo ==
    /\ IntegratedFor(1)
    /\ run[1].steps >= 2
    /\ Free(run[1].start)
    /\ run[1].start.velocity # Zero3

\* C4: hasFiniteMass() is true exactly when inverseMass > 0, for a Particle
\* and for a RigidBody.
C4_HasFiniteMassIffPositive ==
    /\ \A i \in ParticleIds :
          Particle_hasFiniteMass(particles[i]) <=> RGt(particles[i].inverseMass, Num(0))
    /\ RigidBody_hasFiniteMass(body) <=> RGt(body.inverseMass, Num(0))

\* C5: integrate(duration) with duration <= 0 applies no part of the step:
\* the particle is as it was before the call.
C5_NonPositiveDurationRejected ==
    \A i \in ParticleIds :
        op.name = "integrate" /\ op.i = i /\ RLe(op.arg, Num(0)) =>
            particles[i] = before.particles[i]

----------------------------------------------------------------------------
(* Claims about the force generators, checked under SpecForce, and about   *)
(* the registry, checked under SpecRegistry                                 *)

\* the acceleration the gravity generator was constructed with
gravityAcceleration == InitGens["gravity"].gravity

UpdatedBy(g) == op.name = "updateForce" /\ op.arg.fg = g

\* C6: each ParticleGravity.updateForce call adds gravityAcceleration * mass
\* to the accumulator of a finite-mass particle, whatever the duration and
\* the calls made before, and adds nothing when inverseMass is 0.
C6_GravityAddsWeight ==
    UpdatedBy("gravity") =>
        LET p0 == before.particles[op.i]
            p1 == particles[op.i]
        IN  IF p0.inverseMass = Num(0)
            THEN p1.forceAccum = p0.forceAccum
            ELSE p1.forceAccum =
                     V3Add(p0.forceAccum,
                           V3Scale(gravityAcceleration, RDiv(Num(1), p0.inverseMass)))

\* C7: updateForce of every generator changes the particle's forceAccum
\* only: the generator's configuration and the particle's other fields are
\* as before the call.
C7_OnlyForceAccumChanges ==
    op.name = "updateForce" =>
        /\ gens = before.gens
        /\ \A i \in ParticleIds :
              [particles[i] EXCEPT !.forceAccum = Zero3]
                  = [before.particles[i] EXCEPT !.forceAccum = Zero3]

\* C8: updateForces calls updateForce once for each pair added and not since
\* removed or cleared, in registration order, and for no other pair; remove
\* of a pair that is not registered changes nothing.
C8_UpdateForcesRegisteredPairs ==
    /\ op.name = "updateForces" => invoked = added
    /\ op.name = "remove"
          /\ (\A k \in 1..Len(before.registrations) :
                 before.registrations[k] # Registration(op.i, op.arg))
       => registrations = before.registrations

----------------------------------------------------------------------------
(* Claims about RigidBody, checked under SpecBody *)

\* C9: integrate on a body that is not awake changes no field of the body,
\* and a body is not awake when constructed.
C9_AsleepIntegrateIsNoOp ==
    /\ ncalls = 0 => ~body.isAwake
    /\ op.name = "body.integrate" /\ ~before.body.isAwake => body = before.body

C9_Witness ==
    /\ op.name = "body.integrate"
    /\ RGt(op.arg, Num(0))
    /\ ~before.body.isAwake
    /\ before.body.acceleration # Zero3
    /\ body = before.body

Asleep(b) == ~b.isAwake /\ b.velocity = Zero3 /\ b.rotation = Zero3

\* C10: an awake body with canSleep that ends an integrate step with motion
\* below the sleep threshold is asleep afterwards, with velocity and rotation
\* zero, and so is a body after setAwake(false).
C10_SleepsBelowThreshold ==
    /\ op.name = "body.setAwake" => (op.arg = FALSE => Asleep(body))
    /\ op.name = "body.integrate" =>
          (before.body.isAwake /\ before.body.canSleep
                /\ RLt(body.motion, sleepEpsilon)
              => Asleep(body))

\* the motion the sleep test of a step is meant to see: the old motion and
\* the step's kinetic measure, blended with weight 0.5^duration
BlendedMotion(b0, duration) ==
    LET moved == Moved(b0, duration)
        currentMotion == RAdd(V3Dot(moved.velocity, moved.velocity),
                              V3Dot(moved.rotation, moved.rotation))
        bias == Pow(Rat(1, 2), duration)
    IN  RAdd(RMul(bias, b0.motion), RMul(RSub(Num(1), bias), currentMotion))

\* C11: after an awake body with canSleep integrates for d, its motion field
\* is 0.5^d * oldMotion + (1 - 0.5^d) * (|velocity|^2 + |rotation|^2), held
\* to at most ten times the sleep threshold.
C11_MotionBlendedAndStored ==
    op.name = "body.integrate" /\ RGt(op.arg, Num(0))
        /\ before.body.isAwake /\ before.body.canSleep =>
        LET blended == BlendedMotion(before.body, op.arg)
            ceiling == RMul(Num(10), sleepEpsilon)
        IN  body.motion = IF RGt(blended, ceiling) THEN ceiling ELSE blended

\* C12: setAwake(true) on a body that is not awake makes it awake and leaves
\* its motion above the sleep threshold.
C12_WakingResetsMotion ==
    op.name = "body.setAwake" /\ op.arg = TRUE /\ ~before.body.isAwake =>
        body.isAwake /\ RGt(body.motion, sleepEpsilon)

\* C13: after addForce(force) the body is awake, forceAccum has grown by
\* force and torqueAccum is as it was.
C13_AddForceWakes ==
    op.name = "body.addForce" =>
        /\ body.isAwake
        /\ body.forceAccum = V3Add(before.body.forceAccum, op.arg)
        /\ body.torqueAccum = before.body.torqueAccum

C13_Witness ==
    /\ op.name = "body.addForce"
    /\ ~before.body.isAwake
    /\ before.body.torqueAccum # Zero3
    /\ body.isAwake
    /\ body.forceAccum = op.arg

TensorSetters == {"body.setInertiaTensor", "body.setInverseInertiaTensor"}

\* C14: no call of setInertiaTensor or setInverseInertiaTensor returns
\* normally when the tensor supplied has determinant 0.
C14_SingularTensorRejected ==
    op.name \in TensorSetters => Mat3Det(op.arg) # Num(0)

----------------------------------------------------------------------------
(* Claims about the spring-like generators, checked under SpecForce *)

\* the force fg.updateForce added to the particle it was called on
ForceAdded == V3Sub(particles[op.i].forceAccum, before.particles[op.i].forceAccum)

\* C15: the spring adds -springConstant * (length - restLength) along the
\* unit vector from the other particle to this one: toward the other
\* particle when stretched, away from it when compressed.
C15_SpringSignedForce ==
    UpdatedBy("spring") =>
        LET fg == before.gens["spring"]
            line == V3Sub(before.particles[op.i].position,
                          before.particles[fg.other].position)
            signed == RNeg(RMul(fg.springConstant, RSub(V3Len(line), fg.restLength)))
        IN  ForceAdded = V3Scale(V3Normalize(line), signed)

\* C16: the bungee adds nothing while the distance is at most restLength,
\* and beyond it a force of springConstant * (length - restLength) along the
\* unit vector from this particle to the other one.
C16_BungeePullsOnly ==
    UpdatedBy("bungee") =>
        LET fg == before.gens["bungee"]
            toOther == V3Sub(before.particles[fg.other].position,
                             before.particles[op.i].position)
            len == V3Len(toOther)
        IN  IF RLe(len, fg.restLength)
            THEN ForceAdded = Zero3
            ELSE ForceAdded = V3Scale(V3Normalize(toOther),
                                      RMul(fg.springConstant, RSub(len, fg.restLength)))

\* C17: buoyancy adds a force along y only: zero at or above
\* waterHeight + maxDepth, liquidDensity * volume at or below
\* waterHeight - maxDepth, and in between the upward force that is linear in
\* the height and meets both of these values at the two boundaries.
C17_BuoyancyInterpolates ==
    UpdatedBy("buoyancy") =>
        LET fg == before.gens["buoyancy"]
            y == before.particles[op.i].position[2]
            top == RAdd(fg.waterHeight, fg.maxDepth)
            full == RMul(fg.liquidDensity, fg.volume)
            lift == IF RGe(y, top) THEN Num(0)
                    ELSE IF RLe(y, RSub(fg.waterHeight, fg.maxDepth)) THEN full
                    ELSE RDiv(RMul(full, RSub(top, y)), RMul(Num(2), fg.maxDepth))
        IN  ForceAdded = <<Num(0), lift, Num(0)>>

\* C18: the fake spring adds nothing, and no NaN, when
\* 4 * springConstant - damping^2 is zero or negative.
C18_FakeSpringNoOpWhenOverdamped ==
    op.name = "updateForce" =>
        LET fg == before.gens[op.arg.fg]
        IN  fg.kind = "fakeSpring" /\ RLe(Discriminant(fg), Num(0)) =>
                particles[op.i].forceAccum = before.particles[op.i].forceAccum

----------------------------------------------------------------------------
(* Claims about ParticleContact, checked under SpecContact *)

\* the contact the last call was made on, before and after the call
ContactBefore == before.contacts[op.i]

\* both slots of the contact hold a particle of finite mass
TwoFinite(c, ps) ==
    /\ HasSecond(c)
    /\ RGt(ps[c.particles[1]].inverseMass, Num(0))
    /\ RGt(ps[c.particles[2]].inverseMass, Num(0))

\* the velocity of the particle in slot k of contact c along its normal
NormalVelocity(c, ps, k) == V3Dot(ps[c.particles[k]].velocity, c.contactNormal)

\* C19: for two finite-mass particles without acceleration closing at
\* separating velocity s < 0, resolveVelocity leaves the separating velocity
\* -restitution * s; with both masses 1, restitution 1 and opposite normal
\* velocities, each particle's normal velocity is negated.
C19_BounceSeparatingVelocity ==
    op.name \in {"resolveVelocity", "resolve"} =>
        LET c == ContactBefore
            ps0 == before.particles
            s == calculateSeparatingVelocity(c, ps0)
        IN  /\ TwoFinite(c, ps0)
            /\ RLt(s, Num(0))
            /\ \A k \in 1..2 : ps0[c.particles[k]].acceleration = Zero3
            => /\ calculateSeparatingVelocity(c, particles) = RMul(RNeg(c.restitution), s)
               /\ (/\ \A k \in 1..2 : ps0[c.particles[k]].inverseMass = Num(1)
                   /\ c.restitution = Num(1)
                   /\ NormalVelocity(c, ps0, 1) = RNeg(NormalVelocity(c, ps0, 2)))
                  => \A k \in 1..2 :
                         NormalVelocity(c, particles, k) = RNeg(NormalVelocity(c, ps0, k))

C19_Witness ==
    /\ op.name = "resolveVelocity"
    /\ TwoFinite(ContactBefore, before.particles)
    /\ RLt(calculateSeparatingVelocity(ContactBefore, before.particles), Num(0))
    /\ \A k \in 1..2 : before.particles[k].acceleration = Zero3
    /\ \A k \in 1..2 : before.particles[k].inverseMass = Num(1)
    /\ ContactBefore.restitution = Num(1)
    /\ NormalVelocity(ContactBefore, before.particles, 1) = Num(-1)
    /\ NormalVelocity(ContactBefore, before.particles, 2) = Num(1)
    /\ NormalVelocity(ContactBefore, particles, 1) = Num(1)

\* how far the particle in slot k of contact c has moved in the last call
Displacement(c, k) ==
    V3Sub(particles[c.particles[k]].position, before.particles[c.particles[k]].position)

\* C20: for two finite-mass particles and penetration > 0,
\* resolveInterpenetration moves them so that
\* mass0 * displacement0 + mass1 * displacement1 = 0 and the displacements
\* along the normal, in opposite directions, add up to the penetration.
C20_InterpenetrationMassWeighted ==
    op.name = "resolveInterpenetration" =>
        LET c == ContactBefore
            ps0 == before.particles
            mass0 == RDiv(Num(1), ps0[c.particles[1]].inverseMass)
            mass1 == RDiv(Num(1), ps0[c.particles[2]].inverseMass)
            along0 == V3Dot(Displacement(c, 1), c.contactNormal)
            along1 == V3Dot(Displacement(c, 2), c.contactNormal)
        IN  TwoFinite(c, ps0) /\ RGt(c.penetration, Num(0))
            => /\ V3Add(V3Scale(Displacement(c, 1), mass0),
                        V3Scale(Displacement(c, 2), mass1)) = Zero3
               /\ RGe(along0, Num(0)) /\ RLe(along1, Num(0))
               /\ RSub(along0, along1) = c.penetration
               /\ Displacement(c, 1) = V3Scale(c.contactNormal, along0)
               /\ Displacement(c, 2) = V3Scale(c.contactNormal, along1)

C20_Witness ==
    /\ op.name = "resolveInterpenetration"
    /\ TwoFinite(ContactBefore, before.particles)
    /\ RGt(ContactBefore.penetration, Num(0))
    /\ before.particles[1].inverseMass # before.particles[2].inverseMass
    /\ Displacement(ContactBefore, 1) # Zero3
    /\ Displacement(ContactBefore, 2) # Zero3
    /\ ContactBefore.contactNormal[2] # Num(0)

\* C21: for a contact with slot 1 absent, penetration p > 0 and a particle 0
\* of finite mass, resolveInterpenetration returns normally, moves particle 0
\* by p along the normal, records the zero vector as the movement of slot 1
\* and leaves the penetration at 0.
C21_SceneryInterpenetration ==
    op.name = "resolveInterpenetration" =>
        LET c == ContactBefore
        IN  /\ ~HasSecond(c)
            /\ RGt(c.penetration, Num(0))
            /\ RGt(before.particles[c.particles[1]].inverseMass, Num(0))
            => /\ ~raised
               /\ Displacement(c, 1) = V3Scale(c.contactNormal, c.penetration)
               /\ contacts[op.i].particleMovement[2] = Zero3
               /\ contacts[op.i].penetration = Num(0)

\* C28: resolveVelocity on two finite-mass particles keeps
\* mass0 * velocity0 + mass1 * velocity1 and changes each velocity along the
\* contact normal only.
C28_MomentumConserved ==
    op.name = "resolveVelocity" =>
        LET c == ContactBefore
            ps0 == before.particles
            Mass(k) == RDiv(Num(1), ps0[c.particles[k]].inverseMass)
            Momentum(ps) == V3Add(V3Scale(ps[c.particles[1]].velocity, Mass(1)),
                                  V3Scale(ps[c.particles[2]].velocity, Mass(2)))
            Change(k) == V3Sub(particles[c.particles[k]].velocity,
                               ps0[c.particles[k]].velocity)
        IN  TwoFinite(c, ps0)
            => /\ Momentum(particles) = Momentum(ps0)
               /\ \A k \in 1..2 :
                      Change(k) = V3Scale(c.contactNormal,
                                          V3Dot(Change(k), c.contactNormal))

C28_Witness ==
    /\ op.name = "resolveVelocity"
    /\ TwoFinite(ContactBefore, before.particles)
    /\ before.particles[1].inverseMass # before.particles[2].inverseMass
    /\ ContactBefore.contactNormal = Vec(1, 0, 0)
    /\ before.particles[1].velocity[2] # Num(0)
    /\ particles[1].velocity # before.particles[1].velocity
    /\ particles[2].velocity # before.particles[2].velocity

\* entry (r, c) of a column-major 3x3 matrix, and of the rotation part of a
\* column-major 4x4 matrix, as gl-matrix stores them
M3(m, r, c) == At(m, c * 3 + r)

Rot(m, r, c) == At(m, c * 4 + r)

\* R * I * R^T as a column-major 3x3 matrix, R the rotation part of rotmat
RotatedTensor(iitBody, rotmat) ==
    LET RI(r, c) == Sum3(Rot(rotmat, r, 0), M3(iitBody, 0, c),
                         Rot(rotmat, r, 1), M3(iitBody, 1, c),
                         Rot(rotmat, r, 2), M3(iitBody, 2, c))
        W(r, c) == Sum3(RI(r, 0), Rot(rotmat, c, 0),
                        RI(r, 1), Rot(rotmat, c, 1),
                        RI(r, 2), Rot(rotmat, c, 2))
    IN  <<W(0, 0), W(1, 0), W(2, 0), W(0, 1), W(1, 1), W(2, 1), W(0, 2), W(1, 2), W(2, 2)>>

\* C27: after calculateDerivedData on a body whose inverseInertiaTensor is
\* invertible, inverseInertiaTensorWorld is R * inverseInertiaTensor * R^T
\* for the rotation R of the transform matrix; with the identity orientation
\* it equals inverseInertiaTensor, and every entry is a defined number.
C27_WorldTensorRotated ==
    op.name = "body.calculateDerivedData" /\ ~Mat3Singular(before.body.inverseInertiaTensor)
        => /\ body.inverseInertiaTensorWorld =
                  RotatedTensor(before.body.inverseInertiaTensor, body.transformMatrix)
           /\ body.orientation = QuatIdentity
                  => body.inverseInertiaTensorWorld = before.body.inverseInertiaTensor
           /\ \A k \in 1..9 : ~IsNaN(body.inverseInertiaTensorWorld[k])


\* C24: after every calculateDerivedData and integrate call on a body that
\* started with a unit orientation, whatever its angular velocity, the
\* orientation quaternion has norm 1.
C24_OrientationUnit ==
    op.name \in {"body.integrate", "body.calculateDerivedData"}
        => QuatDot(body.orientation, body.orientation) = Num(1)


----------------------------------------------------------------------------
(* Claims about ParticleContactResolver, checked under SpecResolver *)

\* the last operation was resolveContacts(contactArray, numContacts, duration)
ResolvedBatch == op.name = "resolveContacts"

\* the contacts the last resolveContacts call was told to consider
Batch == 1..op.i

\* no two contacts of cs have a particle in common
Disjoint(cs) ==
    \A j, k \in DOMAIN cs :
        j # k => \A a, b \in 1..2 : cs[j].particles[a] = 0
                                    \/ cs[j].particles[a] # cs[k].particles[b]

\* C22: for a batch of N contacts that share no particle, each with a
\* particle of finite mass, resolveContacts with iterations = N returns, and
\* on return every contact has separating velocity >= 0 and penetration <= 0.
C22_DisjointBatchResolved ==
    /\ ResolvedBatch
    /\ op.i = Len(contacts)
    /\ resolver.iterations = Num(Len(contacts))
    /\ Disjoint(before.contacts)
    /\ \A k \in Batch : RGt(TotalInverseMass(before.contacts[k], before.particles), Num(0))
    => /\ ~raised
       /\ \A k \in Batch :
             /\ RGe(calculateSeparatingVelocity(contacts[k], particles), Num(0))
             /\ RLe(contacts[k].penetration, Num(0))

\* C23: resolveContacts on a resolver whose iterations field was set returns
\* normally for every batch, with iterationsUsed <= iterations, and with
\* iterationsUsed < iterations only if no contact of the batch is still
\* closing or overlapping.
C23_ResolveContactsReturns ==
    ResolvedBatch /\ resolver.assigned
    => /\ ~raised
       /\ RLe(resolver.iterationsUsed, resolver.iterations)
       /\ RLt(resolver.iterationsUsed, resolver.iterations)
              => \A k \in Batch : ~Qualifies(contacts[k], particles)

\* what the claim lets the coupling step add to the penetration of contact c
\* after contact r was resolved: minus the correction of slot 0, and the
\* correction of slot 1 once, subtracted or added; the correction of a slot
\* is dot(r's movement of the slot's particle, c's normal), and 0 for a slot
\* whose particle is no endpoint of r
Corrections(c, r) ==
    LET Correction(a) ==
            IF c.particles[a] # 0 /\ c.particles[a] = r.particles[1]
            THEN V3Dot(r.particleMovement[1], c.contactNormal)
            ELSE IF c.particles[a] # 0 /\ c.particles[a] = r.particles[2]
            THEN V3Dot(r.particleMovement[2], c.contactNormal)
            ELSE Num(0)
    IN  {RSub(RNeg(Correction(1)), Correction(2)), RAdd(RNeg(Correction(1)), Correction(2))}

\* C25: in each iteration that completes, every contact's penetration is
\* adjusted once per slot whose particle is an endpoint of the resolved
\* contact, by the dot product of the recorded movement of that particle with
\* the contact's normal; a contact with no particle in common keeps its
\* penetration; no correction is applied twice or cancelled.
C25_CouplingOncePerSlot ==
    ResolvedBatch =>
        \A t \in DOMAIN iterlog :
            ~iterlog[t].raised =>
                \A k \in Batch :
                    RSub(iterlog[t].after[k].penetration, iterlog[t].contacts[k].penetration)
                        \in Corrections(iterlog[t].contacts[k],
                                        iterlog[t].resolved[iterlog[t].index + 1])

\* C26: every iteration resolves a contact that is closing or overlapping,
\* with the lowest separating velocity among those, the lowest index on
\* ties; and the call stops before its iterations are used up only when no
\* contact of the batch is closing or overlapping.
C26_LowestSeparatingVelocityFirst ==
    ResolvedBatch =>
        /\ \A t \in DOMAIN iterlog :
              LET e == iterlog[t]
                  r == e.index + 1
                  Sep(k) == calculateSeparatingVelocity(e.contacts[k], e.particles)
              IN  /\ r \in Batch
                  /\ Qualifies(e.contacts[r], e.particles)
                  /\ \A k \in Batch :
                        Qualifies(e.contacts[k], e.particles)
                            => /\ RLe(Sep(r), Sep(k))
                               /\ Sep(k) = Sep(r) => r <= k
        /\ ~raised /\ Below(resolver.iterationsUsed, resolver.iterations)
              => \A k \in Batch : ~Qualifies(contacts[k], particles)

C26_Witness ==
    /\ ResolvedBatch
    /\ ~raised
    /\ iterlog # <<>>
    /\ iterlog[1].index = 1
    /\ \A k \in 1..2 : RLt(calculateSeparatingVelocity(iterlog[1].contacts[k],
                                                       iterlog[1].particles), Num(0))

\* C29: a resolver made by new ParticleContactResolver(n) has iterations = n;
\* with n >= 1, resolveContacts on a batch with a closing contact then
\* performs at least one resolution.
C29_ConstructorSetsIterations ==
    ~resolver.assigned =>
        /\ resolver.iterations = Num(resolver.requested)
        /\ /\ ResolvedBatch
           /\ resolver.requested >= 1
           /\ \E k \in Batch : RLt(calculateSeparatingVelocity(before.contacts[k],
                                                               before.particles), Num(0))
           => RGe(resolver.iterationsUsed, Num(1))

\* C30: an iteration that resolves a contact whose penetration is <= 0
\* completes and changes no contact's penetration.
C30_VelocityOnlyKeepsPenetration ==
    ResolvedBatch =>
        \A t \in DOMAIN iterlog :
            RLe(iterlog[t].contacts[iterlog[t].index + 1].penetration, Num(0))
                => /\ ~iterlog[t].raised
                   /\ \A k \in Batch :
                         iterlog[t].after[k].penetration = iterlog[t].contacts[k].penetration

====
